---- MODULE Spec2Model ----
(***************************************************************************)
(* Model of the Odoo XML-RPC session client (src/odoo/client.py) as it is  *)
(* used by concurrent tool invocations on one asyncio event loop.          *)
(*                                                                         *)
(* One OdooClient instance is shared by the tasks.  Every method of the    *)
(* client is an `async def`, modelled statement by statement with a        *)
(* program counter per task.  The XML-RPC calls themselves are made with   *)
(* the blocking xmlrpc.client.ServerProxy, and the only `await`s inside    *)
(* the client are awaits of the client's own coroutines, so no statement   *)
(* of connect()/execute_kw()/disconnect() hands control back to the event  *)
(* loop: `running` is the task that holds the loop, and Yields says where  *)
(* it is released.  The backend is a black box: it answers every call      *)
(* with a result or a fault, and may expire an identity at any moment.     *)
(***************************************************************************)
EXTENDS Integers, Sequences, FiniteSets, TLC

\* ---------------------------------------------------------------- bounds
\* identities the backend can hand out in one run
MaxId == 3
\* client operations started in one run
MaxOps == 3

\* ------------------------------------------------------------- constants
Tasks == {"t1", "t2"}
NoTask == "none"
\* self.uid before authentication / after disconnect (Python None)
None == -1
\* what authenticate returns when the credentials are rejected (Python False)
Rejected == 0
Ids == 1..MaxId
\* values a successful remote call can return
Values == {"v1", "v2"}

\* exception classes (src/odoo/exceptions.py) and the raw remote fault
OdooConnectionError == "OdooConnectionError"
OdooAuthenticationError == "OdooAuthenticationError"
OdooRequestError == "OdooRequestError"
RawFault == "xmlrpc.Fault"

VARIABLES
    uid,        \* OdooClient.uid
    connected,  \* OdooClient._connected
    nextId,     \* backend: next identity authenticate hands out
    expired,    \* backend: identities whose session has expired
    running,    \* the task holding the event loop, or NoTask
    opsLeft,    \* operations that may still be started
    pc,         \* per task: next statement
    op,         \* per task: the client method the task called
    ret,        \* per task: where connect() returns to
    ans1,       \* per task: backend's answer to the first remote call
    ans2,       \* per task: backend's answer to the retried remote call
    returned,   \* per task: value execute_kw returned
    outcome,    \* per task: "ok" or the exception that left the method
    cause,      \* per task: why the last connect() of the method failed
    nCalls,     \* per task: remote execute_kw calls issued by the method
    nConn,      \* per task: connect() calls made by the method
    nRetry,     \* per task: connect() calls made by the fault handler
    authUid,    \* per task: identity the last authenticate returned
    callUid,    \* per task: identity sent with the latest remote call
    path,       \* per task: session states the method went through
    torn,       \* a task read uid/_connected while another was inside connect/disconnect
    blind,      \* a remote call was issued while is_connected was false
    authFor,    \* per identity: authenticate calls made because it expired
    authOkFor,  \* per identity: those that returned an identity
    rcPc,       \* reconcile_invoices_and_payments: next statement
    rcArgs,     \* its arguments date_from, date_to
    rcMatching, \* backend: the entries matching the invoice domain, in its order
    rcPayDb,    \* backend: the payments, each with its linked entry ids
    rcDomain,   \* invoice_domain
    rcInvoices, \* invoices, as the entry read returned them
    rcIdx,      \* position of the loop over invoices
    rcData,     \* reconciliation_data
    rcResult,   \* what the tool returned
    rcReads,    \* execute_kw calls issued: entry reads and payment reads
    trPc,       \* trace_account_flow: next statement
    trLimit,    \* its argument limit
    trLedger,   \* backend: per entry its header partner and its lines on F and on T
    trFrom,     \* from_account_ids
    trTo,       \* to_account_ids
    trMoveIds,  \* move_ids
    trPartnerIds, \* partner_ids
    trTodo,     \* entries the running loop has still to visit
    trDirect,   \* direct_relations: entry id and lines
    trIndirect, \* indirect_relations, by entry id with related_from_moves
    trResult,   \* what the tool returned
    trReads,    \* execute_kw calls issued, counted by purpose
    qPc,        \* a list query: next statement
    qQuery,     \* the list query invoked
    qArgs,      \* its arguments, Unset where the caller passed none
    qDomain,    \* domain
    cxPc,       \* get_odoo_client_from_context: next statement
    cxCtx,      \* what ctx.request_context.lifespan_context holds
    cxHeld,     \* the client the invocation holds: the shared one or a new one
    cxNew,      \* uid and _connected of the new client
    cxCreated,  \* clients the handler has constructed
    cxSessions, \* sessions authenticated for clients the handler constructed
    cxTried,    \* the answers to the connect() calls of this invocation
    cxCalls,    \* invocations started
    xPc,        \* the fault handler of execute_kw: next statement
    xMsg,       \* str(e), character by character
    xPhrase,    \* the expiry phrase the backend put into the message, if any
    xPath       \* what the handler did: reconnect and retry, or raise

vars == <<uid, connected, nextId, expired, running, opsLeft, pc, op, ret, ans1,
          ans2, returned, outcome, cause, nCalls, nConn, nRetry, authUid,
          callUid, path, torn, blind, authFor, authOkFor,
          rcPc, rcArgs, rcMatching, rcPayDb, rcDomain, rcInvoices, rcIdx, rcData,
          rcResult, rcReads,
          trPc, trLimit, trLedger, trFrom, trTo, trMoveIds, trPartnerIds, trTodo,
          trDirect, trIndirect, trResult, trReads,
          qPc, qQuery, qArgs, qDomain,
          cxPc, cxCtx, cxHeld, cxNew, cxCreated, cxSessions, cxTried, cxCalls,
          xPc, xMsg, xPhrase, xPath>>

\* the session client's own variables
sessionVars == <<uid, connected, nextId, expired, running, opsLeft, pc, op, ret,
                 ans1, ans2, returned, outcome, cause, nCalls, nConn, nRetry,
                 authUid, callUid, path, torn, blind, authFor, authOkFor>>
reconcileVars == <<rcPc, rcArgs, rcMatching, rcPayDb, rcDomain, rcInvoices, rcIdx,
                   rcData, rcResult, rcReads>>
\* the variables of the tools built on the client
traceVars == <<trPc, trLimit, trLedger, trFrom, trTo, trMoveIds, trPartnerIds,
               trTodo, trDirect, trIndirect, trResult, trReads>>
queryVars == <<qPc, qQuery, qArgs, qDomain>>
contextVars == <<cxPc, cxCtx, cxHeld, cxNew, cxCreated, cxSessions, cxTried, cxCalls>>
expiryVars == <<xPc, xMsg, xPhrase, xPath>>
toolVars == <<reconcileVars, traceVars, queryVars, contextVars, expiryVars>>

clientVars == <<uid, connected>>
backendVars == <<nextId, expired>>
ghostVars == <<torn, blind, authFor, authOkFor>>
localVars == <<op, ret, ans1, ans2, returned, outcome, cause, nCalls, nConn,
               nRetry, authUid, callUid, path>>

\* ------------------------------------------------------------- the client

\* Python truthiness of self.uid: None and False are falsy, an identity is truthy
Truthy(u) == u \in Ids

\* OdooClient.is_connected
is_connected == uid # None /\ connected

\* fault messages of the backend, lower-cased as the handler compares them
ExpiryFaults == {"session expired", "not logged"}
OtherFaults == {"access denied"}
Faults == ExpiryFaults \cup OtherFaults

\* the expiry test of the fault handler
IsExpirySignature(msg) == msg \in ExpiryFaults

\* what the backend may answer to a remote call made with identity u: a value
\* while u's session is alive, an expiry fault once it has expired, and some
\* other fault at any time
Answers(u) ==
    IF u \in Ids /\ u \notin expired THEN Values \cup OtherFaults
    ELSE ExpiryFaults \cup OtherFaults

ConnectLabels == {"cn_auth", "cn_check", "cn_flag", "cn_version", "cn_ret", "cn_fail"}
DisconnectLabels == {"dc_flag"}
InConnect(t) == pc[t] \in ConnectLabels
\* between the first and the last write of connect()/disconnect()
MidUpdate(t) == pc[t] \in (ConnectLabels \ {"cn_auth"}) \cup DisconnectLabels

\* The session state of the design's state machine, read off the client
SessionState ==
    IF \E t \in Tasks : InConnect(t) /\ ret[t] = "ex_call2" THEN "Reauthenticating"
    ELSE IF \E t \in Tasks : InConnect(t) THEN "Connecting"
    ELSE IF is_connected THEN "Connected"
    ELSE "Disconnected"

\* Where a statement hands the event loop back: the alternative in which the
\* three XML-RPC calls are awaited through an asynchronous HTTP client
YieldsAsyncHttp(label) == label \in {"cn_auth", "cn_version", "ex_call1", "ex_call2"}

\* Where a statement hands the event loop back.  authenticate, version and
\* execute_kw are blocking ServerProxy calls and get_server_version() holds no
\* await, so no statement of the client does.
Yields(label) == FALSE

\* the event loop lets task t run its next statement
CanRun(t) == running = t \/ running = NoTask

\* the loop after task t ran the statement at `label` and goes on to `next`
Loop(t, label, next) == IF next = "idle" \/ Yields(label) THEN NoTask ELSE t

\* a read of the shared session state by t while another task is mid-update
TornRead(t) == torn \/ \E u \in Tasks \ {t} : MidUpdate(u)

TypeOK ==
    /\ uid \in Ids \cup {None, Rejected}
    /\ connected \in BOOLEAN
    /\ nextId \in 1..(MaxId + 1)
    /\ expired \subseteq Ids
    /\ running \in Tasks \cup {NoTask}
    /\ opsLeft \in 0..MaxOps
    /\ torn \in BOOLEAN
    /\ blind \in BOOLEAN

SessionInit ==
    /\ uid = None
    /\ connected = FALSE
    /\ nextId = 1
    /\ expired = {}
    /\ running = NoTask
    /\ opsLeft = MaxOps
    /\ pc = [t \in Tasks |-> "idle"]
    /\ op = [t \in Tasks |-> "none"]
    /\ ret = [t \in Tasks |-> "idle"]
    /\ ans1 = [t \in Tasks |-> "none"]
    /\ ans2 = [t \in Tasks |-> "none"]
    /\ returned = [t \in Tasks |-> "none"]
    /\ outcome = [t \in Tasks |-> "none"]
    /\ cause = [t \in Tasks |-> "none"]
    /\ nCalls = [t \in Tasks |-> 0]
    /\ nConn = [t \in Tasks |-> 0]
    /\ nRetry = [t \in Tasks |-> 0]
    /\ authUid = [t \in Tasks |-> None]
    /\ callUid = [t \in Tasks |-> None]
    /\ path = [t \in Tasks |-> <<>>]
    /\ torn = FALSE
    /\ blind = FALSE
    /\ authFor = [i \in Ids |-> 0]
    /\ authOkFor = [i \in Ids |-> 0]

\* no reconciliation is running
ReconcileOff ==
    /\ rcPc = "off"
    /\ rcArgs = <<>>
    /\ rcMatching = <<>>
    /\ rcPayDb = <<>>
    /\ rcDomain = <<>>
    /\ rcInvoices = <<>>
    /\ rcIdx = 0
    /\ rcData = <<>>
    /\ rcResult = <<>>
    /\ rcReads = <<>>

\* no trace is running
TraceOff ==
    /\ trPc = "off"
    /\ trLimit = 0
    /\ trLedger = <<>>
    /\ trFrom = {}
    /\ trTo = {}
    /\ trMoveIds = {}
    /\ trPartnerIds = {}
    /\ trTodo = {}
    /\ trDirect = <<>>
    /\ trIndirect = <<>>
    /\ trResult = <<>>
    /\ trReads = <<>>

\* no list query is running
QueryOff ==
    /\ qPc = "off"
    /\ qQuery = "none"
    /\ qArgs = <<>>
    /\ qDomain = <<>>

\* no invocation is obtaining its client
ContextOff ==
    /\ cxPc = "off"
    /\ cxCtx = "none"
    /\ cxHeld = "none"
    /\ cxNew = [uid |-> None, connected |-> FALSE]
    /\ cxCreated = 0
    /\ cxSessions = 0
    /\ cxTried = <<>>
    /\ cxCalls = 0

\* no fault is being handled
ExpiryOff ==
    /\ xPc = "off"
    /\ xMsg = [kind |-> "none", text |-> <<>>]
    /\ xPhrase = "none"
    /\ xPath = "none"

Init == SessionInit /\ ReconcileOff /\ TraceOff /\ QueryOff /\ ContextOff /\ ExpiryOff

\* ------------------------------------------------------ starting a method

Methods == {"execute_kw", "connect", "reconnect_if_needed", "disconnect"}

FirstLabel(m) ==
    CASE m = "execute_kw" -> "ex_check"
      [] m = "connect" -> "cn_auth"
      [] m = "reconnect_if_needed" -> "rc_check"
      [] m = "disconnect" -> "dc_uid"

\* a task (one tool invocation, or the lifespan) calls a method of the client
Call(t, m) ==
    /\ pc[t] = "idle"
    /\ CanRun(t)
    /\ UNCHANGED toolVars
    /\ opsLeft > 0
    /\ opsLeft' = opsLeft - 1
    /\ running' = t
    /\ pc' = [pc EXCEPT ![t] = FirstLabel(m)]
    /\ op' = [op EXCEPT ![t] = m]
    /\ ret' = [ret EXCEPT ![t] = "idle"]
    /\ ans1' = [ans1 EXCEPT ![t] = "none"]
    /\ ans2' = [ans2 EXCEPT ![t] = "none"]
    /\ returned' = [returned EXCEPT ![t] = "none"]
    /\ outcome' = [outcome EXCEPT ![t] = "none"]
    /\ cause' = [cause EXCEPT ![t] = "none"]
    /\ nCalls' = [nCalls EXCEPT ![t] = 0]
    /\ nConn' = [nConn EXCEPT ![t] = IF m = "connect" THEN 1 ELSE 0]
    /\ nRetry' = [nRetry EXCEPT ![t] = 0]
    /\ authUid' = [authUid EXCEPT ![t] = None]
    /\ callUid' = [callUid EXCEPT ![t] = None]
    /\ path' = [path EXCEPT ![t] = <<>>]
    /\ UNCHANGED <<clientVars, backendVars, ghostVars>>

\* ---------------------------------------------------------------- connect

\* common.authenticate(...) and the assignment of its result to self.uid
ConnectAuthenticate(t) ==
    /\ pc[t] = "cn_auth"
    /\ CanRun(t)
    /\ UNCHANGED toolVars
    /\ \E r \in {"identity", "rejected", "fault"} :
         /\ r = "identity" => nextId <= MaxId
         /\ uid' = CASE r = "identity" -> nextId
                     [] r = "rejected" -> Rejected
                     [] r = "fault" -> uid
         /\ nextId' = IF r = "identity" THEN nextId + 1 ELSE nextId
         /\ authUid' = [authUid EXCEPT ![t] = IF r = "fault" THEN @ ELSE uid']
         /\ cause' = [cause EXCEPT ![t] = IF r = "fault" THEN "transport" ELSE "none"]
         /\ pc' = [pc EXCEPT ![t] = IF r = "fault" THEN "cn_fail" ELSE "cn_check"]
         /\ authFor' = IF ret[t] = "ex_call2" /\ callUid[t] \in Ids
                       THEN [authFor EXCEPT ![callUid[t]] = @ + 1] ELSE authFor
         /\ authOkFor' = IF ret[t] = "ex_call2" /\ callUid[t] \in Ids /\ r = "identity"
                         THEN [authOkFor EXCEPT ![callUid[t]] = @ + 1] ELSE authOkFor
    /\ running' = Loop(t, "cn_auth", pc'[t])
    /\ UNCHANGED <<connected, expired, opsLeft, op, ret, ans1, ans2, returned,
                   outcome, nCalls, nConn, nRetry, callUid, path, torn, blind>>

\* if not self.uid: raise OdooAuthenticationError(...)
ConnectCheckUid(t) ==
    /\ pc[t] = "cn_check"
    /\ CanRun(t)
    /\ UNCHANGED toolVars
    /\ IF Truthy(uid)
       THEN /\ pc' = [pc EXCEPT ![t] = "cn_flag"]
            /\ UNCHANGED cause
       ELSE /\ pc' = [pc EXCEPT ![t] = "cn_fail"]
            /\ cause' = [cause EXCEPT ![t] = "rejected"]
    /\ running' = Loop(t, "cn_check", pc'[t])
    /\ UNCHANGED <<clientVars, backendVars, ghostVars, opsLeft, op, ret, ans1, ans2,
                   returned, outcome, nCalls, nConn, nRetry, authUid, callUid, path>>

\* self._connected = True
ConnectSetFlag(t) ==
    /\ pc[t] = "cn_flag"
    /\ CanRun(t)
    /\ UNCHANGED toolVars
    /\ connected' = TRUE
    /\ pc' = [pc EXCEPT ![t] = "cn_version"]
    /\ running' = Loop(t, "cn_flag", pc'[t])
    /\ UNCHANGED <<uid, backendVars, ghostVars, opsLeft, localVars>>

\* version_info = await self.get_server_version()
get_server_version(t) ==
    /\ pc[t] = "cn_version"
    /\ CanRun(t)
    /\ UNCHANGED toolVars
    /\ \E r \in {"version", "fault"} :
         /\ pc' = [pc EXCEPT ![t] = IF r = "version" THEN "cn_ret" ELSE "cn_fail"]
         /\ cause' = [cause EXCEPT ![t] = IF r = "version" THEN @ ELSE "version"]
    /\ running' = Loop(t, "cn_version", pc'[t])
    /\ UNCHANGED <<clientVars, backendVars, ghostVars, opsLeft, op, ret, ans1, ans2,
                   returned, outcome, nCalls, nConn, nRetry, authUid, callUid, path>>

\* return self.uid
ConnectReturn(t) ==
    /\ pc[t] = "cn_ret"
    /\ CanRun(t)
    /\ UNCHANGED toolVars
    /\ pc' = [pc EXCEPT ![t] = ret[t]]
    /\ outcome' = [outcome EXCEPT ![t] = IF ret[t] = "idle" THEN "ok" ELSE @]
    /\ returned' = [returned EXCEPT ![t] = IF op[t] = "connect" THEN uid ELSE @]
    /\ running' = Loop(t, "cn_ret", pc'[t])
    /\ UNCHANGED <<clientVars, backendVars, ghostVars, opsLeft, op, ret, ans1, ans2,
                   cause, nCalls, nConn, nRetry, authUid, callUid, path>>

\* the exception class that leaves connect(): `except Exception` catches every
\* failure, the OdooAuthenticationError of a rejection included
ConnectRaises(why) == OdooConnectionError

\* the flag, were a failing connect() to leave it as it found it
FlagKeptOnFailure == connected

\* the flag connect() leaves behind when it fails
FlagOnFailure == FALSE

\* except Exception as e: self._connected = False; raise OdooConnectionError(...)
\* The exception leaves the calling method too: neither call site in execute_kw
\* nor reconnect_if_needed catches it.
ConnectFail(t) ==
    /\ pc[t] = "cn_fail"
    /\ CanRun(t)
    /\ UNCHANGED toolVars
    /\ connected' = FlagOnFailure
    /\ outcome' = [outcome EXCEPT ![t] = ConnectRaises(cause[t])]
    /\ pc' = [pc EXCEPT ![t] = "idle"]
    /\ running' = Loop(t, "cn_fail", pc'[t])
    /\ UNCHANGED <<uid, backendVars, ghostVars, opsLeft, op, ret, ans1, ans2,
                   returned, cause, nCalls, nConn, nRetry, authUid, callUid>>
    /\ path' = [path EXCEPT ![t] = IF @ = <<>> THEN @ ELSE Append(@, SessionState')]

\* ------------------------------------------------------------- disconnect

\* the state disconnect() leaves, were it to clear the identity only
DisconnectedUidOnly(s) == [s EXCEPT !.uid = None]

\* the state disconnect() leaves when called in state s = [uid, connected]
Disconnected(s) == [uid |-> None, connected |-> FALSE]

\* self.uid = None
DisconnectClearUid(t) ==
    /\ pc[t] = "dc_uid"
    /\ CanRun(t)
    /\ UNCHANGED toolVars
    /\ uid' = Disconnected([uid |-> uid, connected |-> connected]).uid
    /\ pc' = [pc EXCEPT ![t] = "dc_flag"]
    /\ running' = Loop(t, "dc_uid", pc'[t])
    /\ UNCHANGED <<connected, backendVars, ghostVars, opsLeft, localVars>>

\* self._connected = False
DisconnectClearFlag(t) ==
    /\ pc[t] = "dc_flag"
    /\ CanRun(t)
    /\ UNCHANGED toolVars
    /\ connected' = Disconnected([uid |-> uid, connected |-> connected]).connected
    /\ outcome' = [outcome EXCEPT ![t] = "ok"]
    /\ pc' = [pc EXCEPT ![t] = "idle"]
    /\ running' = Loop(t, "dc_flag", pc'[t])
    /\ UNCHANGED <<uid, backendVars, ghostVars, opsLeft, op, ret, ans1, ans2,
                   returned, cause, nCalls, nConn, nRetry, authUid, callUid, path>>

\* ---------------------------------------------------- reconnect_if_needed

\* if not self.is_connected: await self.connect()
\* (the same test get_odoo_client_from_context makes on the shared client)
reconnect_if_needed(t) ==
    /\ pc[t] = "rc_check"
    /\ CanRun(t)
    /\ UNCHANGED toolVars
    /\ torn' = TornRead(t)
    /\ IF is_connected
       THEN /\ pc' = [pc EXCEPT ![t] = "idle"]
            /\ outcome' = [outcome EXCEPT ![t] = "ok"]
            /\ UNCHANGED nConn
       ELSE /\ pc' = [pc EXCEPT ![t] = "cn_auth"]
            /\ nConn' = [nConn EXCEPT ![t] = @ + 1]
            /\ UNCHANGED outcome
    /\ running' = Loop(t, "rc_check", pc'[t])
    /\ UNCHANGED <<clientVars, backendVars, blind, authFor, authOkFor, opsLeft, op,
                   ret, ans1, ans2, returned, cause, nCalls, nRetry, authUid,
                   callUid, path>>

\* -------------------------------------------------------------- execute_kw

\* if not self.uid: await self.connect()
ExecuteCheckUid(t) ==
    /\ pc[t] = "ex_check"
    /\ CanRun(t)
    /\ UNCHANGED toolVars
    /\ torn' = TornRead(t)
    /\ IF Truthy(uid)
       THEN /\ pc' = [pc EXCEPT ![t] = "ex_call1"]
            /\ UNCHANGED <<ret, nConn>>
       ELSE /\ pc' = [pc EXCEPT ![t] = "cn_auth"]
            /\ ret' = [ret EXCEPT ![t] = "ex_call1"]
            /\ nConn' = [nConn EXCEPT ![t] = @ + 1]
    /\ running' = Loop(t, "ex_check", pc'[t])
    /\ UNCHANGED <<clientVars, backendVars, blind, authFor, authOkFor, opsLeft, op,
                   ans1, ans2, returned, outcome, cause, nCalls, nRetry, authUid,
                   callUid, path>>

\* try: return models.execute_kw(self.database, self.uid, self.password, ...)
ExecuteFirstCall(t) ==
    /\ pc[t] = "ex_call1"
    /\ CanRun(t)
    /\ UNCHANGED toolVars
    /\ torn' = TornRead(t)
    /\ blind' = (blind \/ ~is_connected)
    /\ callUid' = [callUid EXCEPT ![t] = uid]
    /\ nCalls' = [nCalls EXCEPT ![t] = @ + 1]
    /\ path' = [path EXCEPT ![t] = <<SessionState>>]
    /\ \E a \in Answers(uid) :
         /\ ans1' = [ans1 EXCEPT ![t] = a]
         /\ IF a \in Values
            THEN /\ returned' = [returned EXCEPT ![t] = a]
                 /\ outcome' = [outcome EXCEPT ![t] = "ok"]
                 /\ pc' = [pc EXCEPT ![t] = "idle"]
            ELSE /\ pc' = [pc EXCEPT ![t] = "ex_except"]
                 /\ UNCHANGED <<returned, outcome>>
    /\ running' = Loop(t, "ex_call1", pc'[t])
    /\ UNCHANGED <<clientVars, backendVars, authFor, authOkFor, opsLeft, op, ret,
                   ans2, cause, nConn, nRetry, authUid>>

\* the exception class of `raise OdooConnectionError(f"Error executing ...")`
ExecuteRaises == OdooConnectionError

\* the handler, were it to reconnect on every fault
ReconnectOnAnyFault(msg) == TRUE

\* the handler's test: "session expired" in str(e).lower() or "not logged" in ...
ShouldReconnect(msg) == IsExpirySignature(msg)

\* except Exception as e: reconnect on an expiry signature, else raise
ExecuteHandleFault(t) ==
    /\ pc[t] = "ex_except"
    /\ CanRun(t)
    /\ UNCHANGED toolVars
    /\ IF ShouldReconnect(ans1[t])
       THEN /\ pc' = [pc EXCEPT ![t] = "cn_auth"]
            /\ ret' = [ret EXCEPT ![t] = "ex_call2"]
            /\ nConn' = [nConn EXCEPT ![t] = @ + 1]
            /\ nRetry' = [nRetry EXCEPT ![t] = @ + 1]
            /\ UNCHANGED outcome
       ELSE /\ pc' = [pc EXCEPT ![t] = "idle"]
            /\ outcome' = [outcome EXCEPT ![t] = ExecuteRaises]
            /\ UNCHANGED <<ret, nConn, nRetry>>
    /\ running' = Loop(t, "ex_except", pc'[t])
    /\ UNCHANGED <<clientVars, backendVars, ghostVars, opsLeft, op, ans1, ans2,
                   returned, cause, nCalls, authUid, callUid>>
    /\ path' = [path EXCEPT ![t] = IF ShouldReconnect(ans1[t])
                                   THEN Append(@, SessionState') ELSE @]

\* what leaves execute_kw when the retried call faults: the retry sits in the
\* except block, outside any try, so the fault of the XML-RPC layer itself
RetryRaises == RawFault

\* the value execute_kw returns after a retry: the retried call's own result
RetryReturns(first, second) == second

\* models = ServerProxy(...); return models.execute_kw(...) in the except block
ExecuteRetryCall(t) ==
    /\ pc[t] = "ex_call2"
    /\ CanRun(t)
    /\ UNCHANGED toolVars
    /\ torn' = TornRead(t)
    /\ blind' = (blind \/ ~is_connected)
    /\ nCalls' = [nCalls EXCEPT ![t] = @ + 1]
    /\ callUid' = [callUid EXCEPT ![t] = uid]
    /\ pc' = [pc EXCEPT ![t] = "idle"]
    /\ \E a \in Answers(uid) :
         /\ ans2' = [ans2 EXCEPT ![t] = a]
         /\ IF a \in Values
            THEN /\ returned' = [returned EXCEPT ![t] = RetryReturns(ans1[t], a)]
                 /\ outcome' = [outcome EXCEPT ![t] = "ok"]
            ELSE /\ outcome' = [outcome EXCEPT ![t] = RetryRaises]
                 /\ UNCHANGED returned
    /\ running' = Loop(t, "ex_call2", pc'[t])
    /\ UNCHANGED <<clientVars, backendVars, authFor, authOkFor, opsLeft, op, ret,
                   ans1, cause, nConn, nRetry, authUid>>
    /\ path' = [path EXCEPT ![t] = Append(@, SessionState')]

\* ------------------------------------------------------------ the backend

\* the backend expires the session of an identity it has handed out
Expire ==
    /\ \E i \in Ids :
         /\ i < nextId
         /\ i \notin expired
         /\ expired' = expired \cup {i}
    /\ UNCHANGED <<clientVars, nextId, running, opsLeft, pc, localVars, ghostVars>>
    /\ UNCHANGED toolVars

\* ----------------------------------------------------------- specification

Next ==
    \/ \E t \in Tasks, m \in Methods : Call(t, m)
    \/ \E t \in Tasks : ConnectAuthenticate(t)
    \/ \E t \in Tasks : ConnectCheckUid(t)
    \/ \E t \in Tasks : ConnectSetFlag(t)
    \/ \E t \in Tasks : get_server_version(t)
    \/ \E t \in Tasks : ConnectReturn(t)
    \/ \E t \in Tasks : ConnectFail(t)
    \/ \E t \in Tasks : DisconnectClearUid(t)
    \/ \E t \in Tasks : DisconnectClearFlag(t)
    \/ \E t \in Tasks : reconnect_if_needed(t)
    \/ \E t \in Tasks : ExecuteCheckUid(t)
    \/ \E t \in Tasks : ExecuteFirstCall(t)
    \/ \E t \in Tasks : ExecuteHandleFault(t)
    \/ \E t \in Tasks : ExecuteRetryCall(t)
    \/ Expire

Spec == Init /\ [][Next]_vars

\* ------------------------------------------------------------- properties

\* task t has called method m and the call has returned or raised
Done(t, m) == pc[t] = "idle" /\ op[t] = m /\ outcome[t] # "none"

\* C1: an execute_kw on a session that holds an identity (no connect before the
\* first call) whose first call is answered by a fault without expiry signature
\* raises RequestError, makes no connect() call and no second remote call.
C1_NonExpiryFaultRaisesRequestError ==
    \A t \in Tasks :
        (Done(t, "execute_kw") /\ nConn[t] = nRetry[t] /\ ans1[t] \in OtherFaults)
            => /\ outcome[t] = OdooRequestError
               /\ nConn[t] = 0
               /\ nCalls[t] = 1

\* C2: when the first call is answered by an expiry fault and the retried call
\* by a value, execute_kw returns that value and the session went
\* Connected -> Reauthenticating -> Connected, the retry being sent with the
\* identity the reauthentication obtained.
C2_RetryReturnsSecondResult ==
    \A t \in Tasks :
        (Done(t, "execute_kw") /\ IsExpirySignature(ans1[t]) /\ ans2[t] \in Values)
            => /\ outcome[t] = "ok"
               /\ returned[t] = ans2[t]
               /\ callUid[t] = authUid[t]
               /\ path[t] = <<"Connected", "Reauthenticating", "Connected">>

\* C3 as stated: on an expiry fault execute_kw calls connect() once and retries
\* the call once (two remote calls); otherwise it does not retry.
C3_RetryExactlyOnce ==
    \A t \in Tasks :
        (Done(t, "execute_kw") /\ ans1[t] # "none")
            => /\ IsExpirySignature(ans1[t]) => (nRetry[t] = 1 /\ nCalls[t] = 2)
               /\ ~IsExpirySignature(ans1[t]) => (nRetry[t] = 0 /\ nCalls[t] = 1)

\* C3 as amended: the fault handler calls connect() once exactly on an expiry
\* fault, the call is retried once exactly when that connect() returned, and no
\* execute_kw issues more than two remote calls.
C3_RetryOnceIfReconnected ==
    \A t \in Tasks :
        Done(t, "execute_kw")
            => /\ nCalls[t] <= 2
               /\ nRetry[t] = (IF IsExpirySignature(ans1[t]) THEN 1 ELSE 0)
               /\ nCalls[t] = 2 <=> (IsExpirySignature(ans1[t]) /\ cause[t] = "none")
               /\ nCalls[t] = 0 <=> ans1[t] = "none"
               /\ ans2[t] # "none" <=> nCalls[t] = 2

\* an execute_kw hit an expiry fault, reconnected and retried
C3_Witness ==
    \E t \in Tasks :
        Done(t, "execute_kw") /\ IsExpirySignature(ans1[t]) /\ nCalls[t] = 2

\* C4: a retried call that faults after the reauthentication leaves execute_kw
\* wrapped in the error class of a first-attempt failure (RequestError), never
\* as the raw remote fault.
C4_SecondFailureWrapped ==
    \A t \in Tasks :
        (Done(t, "execute_kw") /\ IsExpirySignature(ans1[t]) /\ ans2[t] \in Faults)
            => outcome[t] \in {OdooRequestError, ExecuteRaises}

\* C5: at most one connect() is in progress at any moment.
C5_ConnectNeverOverlaps == Cardinality({t \in Tasks : InConnect(t)}) <= 1

\* a reauthenticating connect() is in progress while the other task's latest
\* method reauthenticated too
C5_Witness ==
    \E t \in Tasks, u \in Tasks :
        /\ t # u
        /\ InConnect(t) /\ ret[t] = "ex_call2"
        /\ op[u] = "execute_kw" /\ nRetry[u] = 1

C7_NoTornRead == ~torn

\* a task issued a remote call after the other task completed a method that
\* reconnected
C7_Witness ==
    \E t \in Tasks, u \in Tasks :
        /\ t # u
        /\ nCalls[t] > 0
        /\ pc[u] = "idle" /\ nConn[u] > 0

\* C8: connect() raises AuthenticationError when authenticate returns no
\* identity and ConnectionError on a transport fault.
C8_RejectionRaisesAuthenticationError ==
    \A t \in Tasks :
        (Done(t, "connect") /\ outcome[t] # "ok")
            => outcome[t] = (IF cause[t] = "rejected"
                             THEN OdooAuthenticationError ELSE OdooConnectionError)

\* C9: no remote call is issued while is_connected is false.
C9_NoCallWhileDisconnected == ~blind

\* C10: when disconnect() returns, uid is unset and the flag is false whatever
\* the state it was called in, it has not raised, and disconnecting the state
\* it leaves gives that state again.
C10_DisconnectIdempotent ==
    [][\A t \in Tasks :
          (pc[t] = "dc_flag" /\ pc'[t] = "idle")
              => /\ uid' = None /\ ~connected' /\ ~is_connected'
                 /\ outcome'[t] = "ok"
                 /\ LET s == [uid |-> uid', connected |-> connected']
                    IN  Disconnected(s) = s
                 /\ LET s0 == [uid |-> uid, connected |-> connected]
                    IN  Disconnected(Disconnected(s0)) = Disconnected(s0)]_vars

\* a disconnect() has returned on an already disconnected session that had been
\* connected before, after the other task's disconnect()
C10_Witness ==
    \E t \in Tasks, u \in Tasks :
        /\ t # u
        /\ Done(t, "disconnect") /\ Done(u, "disconnect")
        /\ nextId > 1
        /\ uid = None /\ ~connected

\* C11: outside the writes of a connect() or disconnect(), is_connected is
\* true only when the session is Connected with an identity that a successful
\* authentication returned, never with an unset or rejected identity.
C11_ConnectedOnlyWithIdentity ==
    (\A t \in Tasks : ~MidUpdate(t))
        => (is_connected => /\ Truthy(uid) /\ uid < nextId
                            /\ uid # None /\ uid # Rejected
                            /\ SessionState \in {"Connected", "Connecting",
                                                 "Reauthenticating"})

\* a connect() on a session that had an identity was rejected and has returned:
\* the rejected identity is held and is_connected is false
C11_Witness ==
    \E t \in Tasks :
        /\ Done(t, "connect") /\ cause[t] = "rejected"
        /\ outcome[t] # "ok"
        /\ uid = Rejected /\ nextId > 1
        /\ ~is_connected

\* ============================================================================
\* reconcile_invoices_and_payments (src/resources/accounting.py)
\* Amounts are in thousandths of the currency unit.

\* how many entries of the ledger match the invoice domain at most
MaxMatch == 6

\* limit = 5
ReconcileLimit == 5
\* the tolerance 0.01 of is_reconciled
Epsilon == 10
\* amount_total of the entries: 100.00
InvoiceTotal == 100000
\* payment amounts: 98.00, 1.995 and 2.01
Amounts == {98000, 1995, 2010}
\* an optional argument that was not passed
Unset == "None"
\* the date arguments a caller passes
Dates == {Unset, "2024-01-01"}

Abs(x) == IF x < 0 THEN -x ELSE x
Min(a, b) == IF a < b THEN a ELSE b

\* the i-th of n matching entries of a ledger of shape sel
Entry(i, n, sel) ==
    [id |-> IF sel.desc THEN n + 1 - i ELSE i,
     move_type |-> IF (i + sel.a) % 2 = 0 THEN "in_invoice" ELSE "out_invoice",
     amount_total |-> InvoiceTotal,
     payment_state |-> IF (i + sel.b) % 3 = 0 THEN "paid" ELSE "not_paid"]

\* the entries matching the domain, in the backend's order
Ledgers ==
    {[i \in 1..n |-> Entry(i, n, sel)] :
        n \in 0..MaxMatch, sel \in [desc : BOOLEAN, a : 0..1, b : 0..2]}

\* account.payment records: an amount and the entries it is reconciled with
PaymentRecs == [amount : Amounts, reconciled_invoice_ids : {{1}, {2}, {1, 2}}]
PaymentDbs == {<<p, q>> : p \in PaymentRecs, q \in PaymentRecs}

\* invoice_domain
InvoiceDomain(args) ==
    <<<<"move_type", "in", "in_invoice,out_invoice">>>>
        \o (IF args.date_from # Unset
            THEN <<<<"invoice_date", ">=", args.date_from>>>> ELSE <<>>)
        \o (IF args.date_to # Unset
            THEN <<<<"invoice_date", "<=", args.date_to>>>> ELSE <<>>)

\* search_read without a limit
SearchReadAll(matching, lim) == matching

\* search_read with {"limit": lim}: the first lim records that match
SearchRead(matching, lim) == SubSeq(matching, 1, Min(lim, Len(matching)))

\* search_read on account.payment with ("reconciled_invoice_ids", "in", [id])
PaymentsOf(id) == SelectSeq(rcPayDb, LAMBDA p : id \in p.reconciled_invoice_ids)

\* sum(payment["amount"] for payment in payments)
RECURSIVE SumAmounts(_)
SumAmounts(ps) == IF ps = <<>> THEN 0 ELSE Head(ps).amount + SumAmounts(Tail(ps))

\* the type tag, were it taken from the other directional type
InvoiceTypeSwapped(move_type) ==
    IF move_type = "out_invoice" THEN "vendor_bill" ELSE "customer_invoice"

\* "vendor_bill" if invoice["move_type"] == "in_invoice" else "customer_invoice"
InvoiceType(move_type) ==
    IF move_type = "in_invoice" THEN "vendor_bill" ELSE "customer_invoice"

\* is_reconciled without the absolute value
IsReconciledSigned(payment_state, outstanding) ==
    payment_state = "paid" \/ outstanding < Epsilon

\* invoice["payment_state"] == "paid" or abs(outstanding) < 0.01
IsReconciled(payment_state, outstanding) ==
    payment_state = "paid" \/ Abs(outstanding) < Epsilon

\* the element appended to reconciliation_data for one invoice
ReconciliationRecord(invoice, payments) ==
    LET total_paid == SumAmounts(payments)
        outstanding == invoice.amount_total - total_paid
    IN  [invoice |-> invoice.id,
         type |-> InvoiceType(invoice.move_type),
         payments |-> Len(payments),
         total_paid |-> total_paid,
         outstanding |-> outstanding,
         is_reconciled |-> IsReconciled(invoice.payment_state, outstanding)]

\* what the tool would return, were it to hand out the records computed so far
ReconcilePartial(data) == [error |-> FALSE, data |-> data]

\* except Exception as e: return {"error": str(e)}
ReconcileFailed(data) == [error |-> TRUE, data |-> <<>>]

\* return reconciliation_data
ReconcileReturned(data) == [error |-> FALSE, data |-> data]

InitReconcile ==
    /\ SessionInit
    /\ TraceOff
    /\ QueryOff
    /\ ContextOff
    /\ ExpiryOff
    /\ rcPc = "get_client"
    /\ rcArgs \in [date_from : Dates, date_to : Dates]
    /\ rcMatching \in Ledgers
    /\ rcPayDb \in PaymentDbs
    /\ rcDomain = <<>>
    /\ rcInvoices = <<>>
    /\ rcIdx = 0
    /\ rcData = <<>>
    /\ rcResult = <<>>
    /\ rcReads = <<>>

\* client = await get_odoo_client_from_context(ctx), inside the try
ReconcileGetClient ==
    /\ rcPc = "get_client"
    /\ \E ok \in BOOLEAN :
         IF ok THEN /\ rcPc' = "read_invoices"
                    /\ UNCHANGED rcResult
         ELSE /\ rcPc' = "done"
              /\ rcResult' = ReconcileFailed(rcData)
    /\ UNCHANGED <<rcArgs, rcMatching, rcPayDb, rcDomain, rcInvoices, rcIdx, rcData,
                   rcReads>>
    /\ UNCHANGED <<sessionVars, traceVars, queryVars, contextVars, expiryVars>>

\* the invoice domain and the search_read on account.move
ReconcileReadInvoices ==
    /\ rcPc = "read_invoices"
    /\ rcDomain' = InvoiceDomain(rcArgs)
    /\ \E ok \in BOOLEAN :
         /\ rcReads' = Append(rcReads, [model |-> "account.move", ok |-> ok])
         /\ IF ok THEN /\ rcInvoices' = SearchRead(rcMatching, ReconcileLimit)
                       /\ rcIdx' = 1
                       /\ rcPc' = "loop"
                       /\ UNCHANGED rcResult
            ELSE /\ rcPc' = "done"
                 /\ rcResult' = ReconcileFailed(rcData)
                 /\ UNCHANGED <<rcInvoices, rcIdx>>
    /\ UNCHANGED <<rcArgs, rcMatching, rcPayDb, rcData>>
    /\ UNCHANGED <<sessionVars, traceVars, queryVars, contextVars, expiryVars>>

\* one turn of `for invoice in invoices`: the payment read and the record
ReconcileInvoice ==
    /\ rcPc = "loop"
    /\ rcIdx <= Len(rcInvoices)
    /\ \E ok \in BOOLEAN :
         /\ rcReads' = Append(rcReads, [model |-> "account.payment", ok |-> ok])
         /\ IF ok
            THEN /\ rcData' = Append(rcData,
                        ReconciliationRecord(rcInvoices[rcIdx],
                                             PaymentsOf(rcInvoices[rcIdx].id)))
                 /\ rcIdx' = rcIdx + 1
                 /\ UNCHANGED <<rcPc, rcResult>>
            ELSE /\ rcPc' = "done"
                 /\ rcResult' = ReconcileFailed(rcData)
                 /\ UNCHANGED <<rcData, rcIdx>>
    /\ UNCHANGED <<rcArgs, rcMatching, rcPayDb, rcDomain, rcInvoices>>
    /\ UNCHANGED <<sessionVars, traceVars, queryVars, contextVars, expiryVars>>

\* the loop is exhausted: return reconciliation_data
ReconcileReturn ==
    /\ rcPc = "loop"
    /\ rcIdx > Len(rcInvoices)
    /\ rcPc' = "done"
    /\ rcResult' = ReconcileReturned(rcData)
    /\ UNCHANGED <<rcArgs, rcMatching, rcPayDb, rcDomain, rcInvoices, rcIdx, rcData,
                   rcReads>>
    /\ UNCHANGED <<sessionVars, traceVars, queryVars, contextVars, expiryVars>>

NextReconcile ==
    \/ ReconcileGetClient
    \/ ReconcileReadInvoices
    \/ ReconcileInvoice
    \/ ReconcileReturn

SpecReconcile == InitReconcile /\ [][NextReconcile]_vars

\* calls issued on a model so far
ReadsOf(model) == Len(SelectSeq(rcReads, LAMBDA r : r.model = model))

\* C12: reconcile reads and processes at most 5 entries however many match:
\* at most one entry read, five payment reads and five records.
C12_AtMostFiveEntries ==
    /\ Len(rcInvoices) <= 5
    /\ Len(rcData) <= 5
    /\ rcIdx <= 6
    /\ ReadsOf("account.move") <= 1
    /\ ReadsOf("account.payment") <= 5

\* more than five entries match and a full batch was returned
C12_Witness ==
    /\ rcPc = "done" /\ ~rcResult.error
    /\ Len(rcMatching) > 5
    /\ Len(rcResult.data) = 5
    /\ ReadsOf("account.payment") = 5

\* C13: is_reconciled of every record is (payment_state = "paid") or
\* |outstanding| < 0.01; total 100.00 paid 99.995 is reconciled, paid 98.00 and
\* not in state paid is not reconciled with outstanding 2.00.
C13_ReconciledRule ==
    \A k \in 1..Len(rcData) :
        LET r == rcData[k]
            e == rcInvoices[k]
            adiff == IF r.outstanding >= 0 THEN r.outstanding ELSE 0 - r.outstanding
        IN  /\ r.is_reconciled = (e.payment_state = "paid" \/ adiff < 10)
            /\ (e.amount_total = 100000 /\ r.total_paid = 99995) => r.is_reconciled
            /\ (e.amount_total = 100000 /\ r.total_paid = 98000
                    /\ e.payment_state # "paid")
                   => (~r.is_reconciled /\ r.outstanding = 2000)

\* one batch holds an entry paid 99.995, an entry paid 98.00 and an overpaid
\* entry, none of them in state paid
C13_Witness ==
    /\ rcPc = "done" /\ ~rcResult.error
    /\ \E k \in 1..Len(rcData) :
         /\ rcData[k].total_paid = 99995 /\ rcInvoices[k].payment_state # "paid"
    /\ \E k \in 1..Len(rcData) :
         /\ rcData[k].total_paid = 98000 /\ rcInvoices[k].payment_state # "paid"

\* the payments of the database linked to entry id, added up
LinkedTotal(id) ==
    LET linked(j) == id \in rcPayDb[j].reconciled_invoice_ids
    IN  (IF linked(1) THEN rcPayDb[1].amount ELSE 0)
            + (IF linked(2) THEN rcPayDb[2].amount ELSE 0)

\* C14: one record per entry read, in the order read; total_paid is the sum of
\* the payments linked to the entry, outstanding is total - total_paid, the type
\* tag is vendor_bill for in_invoice and customer_invoice otherwise.
C14_OneRecordPerEntry ==
    /\ Len(rcData) <= Len(rcInvoices)
    /\ (rcPc = "done" /\ ~rcResult.error)
           => (rcResult.data = rcData /\ Len(rcData) = Len(rcInvoices))
    /\ \A k \in 1..Len(rcData) :
         LET r == rcData[k]
             e == rcInvoices[k]
         IN  /\ r.invoice = e.id
             /\ e = rcMatching[k]
             /\ r.total_paid = LinkedTotal(e.id)
             /\ r.outstanding = e.amount_total - r.total_paid
             /\ r.type = (IF e.move_type = "in_invoice" THEN "vendor_bill"
                          ELSE "customer_invoice")

\* a returned batch with entries of both directions, one of them paid by two
\* payments and one by none
C14_Witness ==
    /\ rcPc = "done" /\ ~rcResult.error
    /\ \E j, k \in 1..Len(rcResult.data) :
         /\ rcResult.data[j].type = "vendor_bill"
         /\ rcResult.data[k].type = "customer_invoice"
    /\ \E k \in 1..Len(rcResult.data) : rcResult.data[k].payments = 2
    /\ \E k \in 1..Len(rcResult.data) : rcResult.data[k].payments = 0

\* C15: a failed read is the last call of the invocation, and the invocation
\* returns one error and none of the records computed before it.
C15_FailureAbortsBatch ==
    \A k \in 1..Len(rcReads) :
        ~rcReads[k].ok
            => /\ k = Len(rcReads)
               /\ rcPc = "done"
               /\ rcResult.error
               /\ rcResult.data = <<>>

\* the payment read of a later entry failed after records had been computed
C15_Witness ==
    /\ rcPc = "done"
    /\ Len(rcData) >= 2
    /\ Len(rcReads) = Len(rcData) + 2
    /\ ~rcReads[Len(rcReads)].ok
    /\ rcResult.error

\* ============================================================================
\* trace_account_flow (src/resources/accounting.py)

\* entries of the ledger
MaxMoves == 2
\* largest limit a caller passes
MaxLimit == 2

\* an empty many2one (False)
NoPartner == 0
\* what the two account codes resolve to when they resolve
FromAccounts == {10}
ToAccounts == {20}

\* the line of an entry on an account of F: absent, or with its partner and
\* whether the from_lines read returns it (it is inside the date bounds and the
\* first 100)
FLines ==
    {[present |-> FALSE, partner |-> NoPartner, read |-> FALSE]}
        \cup [present : {TRUE}, partner : {NoPartner, 1}, read : BOOLEAN]
\* the line of an entry on an account of T: absent, or with its partner
TLines ==
    {[present |-> FALSE, partner |-> NoPartner]}
        \cup [present : {TRUE}, partner : {NoPartner, 1, 2}]
\* an entry: the partner of its header, its line on F and its line on T
MoveRecs == [header : {NoPartner, 1}, fline : FLines, tline : TLines]
TraceLedgers == [1..MaxMoves -> MoveRecs]

ReadKinds == {"account", "from_lines", "to_lines_in_move", "move", "all_lines",
              "to_lines"}
\* the calls on account.move.line
LineReadKinds == {"from_lines", "to_lines_in_move", "all_lines", "to_lines"}
\* n more calls of kind k
Issued(k, n) == [trReads EXCEPT ![k] = @ + n]

\* from_lines, each line named by its entry
FromLines ==
    {m \in DOMAIN trLedger :
        trLedger[m].fline.present /\ trLedger[m].fline.read /\ trFrom # {}}

\* partner_ids
PartnerIdsOf(lines) == {trLedger[m].fline.partner : m \in lines} \ {NoPartner}

\* to_lines_in_move is not empty
ToLinesInMove(m) == trLedger[m].tline.present /\ trTo # {}

\* related_move_ids: the entries of the lines on T whose partner is in P
RelatedMoveIds(P) ==
    {m \in DOMAIN trLedger : ToLinesInMove(m) /\ trLedger[m].tline.partner \in P}

\* new_move_ids, were the entries of move_ids kept
NewMoveIdsAll(related, moveIds) == related

\* new_move_ids = [m for m in related_move_ids if m not in move_ids]
NewMoveIds(related, moveIds) == related \ moveIds

\* new_move_ids[:k] for k > 0: some k of them, the order of a list made from a
\* set being unspecified
Slices(S, k) == {X \in SUBSET S : Cardinality(X) = Min(k, Cardinality(S))}

\* the lines of a direct record, were they those of the search on T
ToLinesOnly(m) == {"T"}

\* all_lines of an entry, each line named by the account group it is on
AllLines(m) ==
    (IF trLedger[m].fline.present THEN {"F"} ELSE {})
        \cup (IF trLedger[m].tline.present THEN {"T"} ELSE {})

\* partner_id of the indirect step: the partner of the entry's header
LinkPartner(m) == trLedger[m].header

\* related_from_moves
RelatedFromMoves(partner_id) ==
    {m \in FromLines :
        trLedger[m].fline.partner # NoPartner /\ trLedger[m].fline.partner = partner_id}

\* the test of the indirect search, were it to admit a direct count equal to limit
IndirectPursuedUpTo(nDirect, lim, P) == nDirect <= lim /\ P # {}

\* if len(direct_relations) < limit and partner_ids
IndirectPursued(nDirect, lim, P) == nDirect < lim /\ P # {}

\* the emptiness test, were it made on from_account_ids only
UnresolvedFrom(F, T) == F = {}

\* not from_account_ids, or not to_account_ids
Unresolved(F, T) == F = {} \/ T = {}

\* return {"error": f"No accounts found matching the number ..."}
TraceNotFound == [kind |-> "not_found", direct |-> <<>>, indirect |-> <<>>]
\* except Exception as e: return {"error": str(e)}
TraceFailed == [kind |-> "error", direct |-> <<>>, indirect |-> <<>>]
\* return result
TraceReturned == [kind |-> "ok", direct |-> trDirect, indirect |-> trIndirect]

\* the least entry of a non-empty set
Least(S) == CHOOSE m \in S : \A n \in S : m <= n

InitTrace ==
    /\ SessionInit
    /\ ReconcileOff
    /\ QueryOff
    /\ ContextOff
    /\ ExpiryOff
    /\ trPc = "resolve"
    /\ trLimit \in 0..MaxLimit
    /\ trLedger \in TraceLedgers
    /\ trFrom = {}
    /\ trTo = {}
    /\ trMoveIds = {}
    /\ trPartnerIds = {}
    /\ trTodo = {}
    /\ trDirect = <<>>
    /\ trIndirect = <<>>
    /\ trResult = <<>>
    /\ trReads = [k \in ReadKinds |-> 0]

\* the client, the two account searches and the two emptiness tests; failAt
\* names the call that raised: the client, the first or the second search
TraceResolve ==
    /\ trPc = "resolve"
    /\ \E failAt \in 0..3, F \in {{}, FromAccounts}, T \in {{}, ToAccounts} :
         IF failAt # 0
         THEN /\ trReads' = Issued("account", failAt - 1)
              /\ trPc' = "done"
              /\ trResult' = TraceFailed
              /\ UNCHANGED <<trFrom, trTo>>
         ELSE /\ trReads' = Issued("account", 2)
              /\ trFrom' = F
              /\ trTo' = T
              /\ IF Unresolved(F, T)
                 THEN trPc' = "done" /\ trResult' = TraceNotFound
                 ELSE trPc' = "from_lines" /\ UNCHANGED trResult
    /\ UNCHANGED <<trLimit, trLedger, trMoveIds, trPartnerIds, trTodo, trDirect,
                   trIndirect>>
    /\ UNCHANGED <<sessionVars, reconcileVars, queryVars, contextVars, expiryVars>>

\* the read of the lines on F, move_ids and partner_ids
TraceReadFromLines ==
    /\ trPc = "from_lines"
    /\ trReads' = Issued("from_lines", 1)
    /\ \E ok \in BOOLEAN :
         IF ok
         THEN /\ trMoveIds' = FromLines
              /\ trPartnerIds' = PartnerIdsOf(FromLines)
              /\ trTodo' = FromLines
              /\ trPc' = "direct"
              /\ UNCHANGED trResult
         ELSE /\ trPc' = "done"
              /\ trResult' = TraceFailed
              /\ UNCHANGED <<trMoveIds, trPartnerIds, trTodo>>
    /\ UNCHANGED <<trLimit, trLedger, trFrom, trTo, trDirect, trIndirect>>
    /\ UNCHANGED <<sessionVars, reconcileVars, queryVars, contextVars, expiryVars>>

\* one turn of `for move_id in move_ids`
TraceDirect ==
    /\ trPc = "direct"
    /\ trTodo # {}
    /\ LET m == Least(trTodo)
           n == IF ToLinesInMove(m) THEN 3 ELSE 1
       IN  \E failAt \in 0..n :
             IF failAt # 0
             THEN /\ trReads' = [trReads EXCEPT
                                   !["to_lines_in_move"] = @ + 1,
                                   !["move"] = @ + (IF failAt >= 2 THEN 1 ELSE 0),
                                   !["all_lines"] = @ + (IF failAt >= 3 THEN 1 ELSE 0)]
                  /\ trPc' = "done"
                  /\ trResult' = TraceFailed
                  /\ UNCHANGED <<trTodo, trDirect>>
             ELSE /\ trReads' = [trReads EXCEPT
                                   !["to_lines_in_move"] = @ + 1,
                                   !["move"] = @ + (IF n = 3 THEN 1 ELSE 0),
                                   !["all_lines"] = @ + (IF n = 3 THEN 1 ELSE 0)]
                  /\ trDirect' = IF ToLinesInMove(m)
                                 THEN Append(trDirect,
                                             [move |-> m, lines |-> AllLines(m)])
                                 ELSE trDirect
                  /\ trTodo' = trTodo \ {m}
                  /\ UNCHANGED <<trPc, trResult>>
    /\ UNCHANGED <<trLimit, trLedger, trFrom, trTo, trMoveIds, trPartnerIds,
                   trIndirect>>
    /\ UNCHANGED <<sessionVars, reconcileVars, queryVars, contextVars, expiryVars>>

\* the direct loop is exhausted: the test of the indirect search
TraceAfterDirect ==
    /\ trPc = "direct"
    /\ trTodo = {}
    /\ trPc' = IF IndirectPursued(Len(trDirect), trLimit, trPartnerIds)
               THEN "to_lines" ELSE "return"
    /\ UNCHANGED <<trLimit, trLedger, trFrom, trTo, trMoveIds, trPartnerIds, trTodo,
                   trDirect, trIndirect, trResult, trReads>>
    /\ UNCHANGED <<sessionVars, reconcileVars, queryVars, contextVars, expiryVars>>

\* the read of the lines on T with a partner of P, new_move_ids and its slice
TraceReadToLines ==
    /\ trPc = "to_lines"
    /\ trReads' = Issued("to_lines", 1)
    /\ \E ok \in BOOLEAN :
         IF ok
         THEN /\ trTodo' \in Slices(NewMoveIds(RelatedMoveIds(trPartnerIds), trMoveIds),
                                    trLimit - Len(trDirect))
              /\ trPc' = "indirect"
              /\ UNCHANGED trResult
         ELSE /\ trPc' = "done"
              /\ trResult' = TraceFailed
              /\ UNCHANGED trTodo
    /\ UNCHANGED <<trLimit, trLedger, trFrom, trTo, trMoveIds, trPartnerIds, trDirect,
                   trIndirect>>
    /\ UNCHANGED <<sessionVars, reconcileVars, queryVars, contextVars, expiryVars>>

\* one turn of `for move_id in new_move_ids[:limit - len(direct_relations)]`
TraceIndirect ==
    /\ trPc = "indirect"
    /\ trTodo # {}
    /\ LET m == Least(trTodo)
           related_from_moves == RelatedFromMoves(LinkPartner(m))
       IN  \E failAt \in 0..2 :
             IF failAt # 0
             THEN /\ trReads' = [trReads EXCEPT
                                   !["move"] = @ + 1,
                                   !["all_lines"] = @ + (IF failAt >= 2 THEN 1 ELSE 0)]
                  /\ trPc' = "done"
                  /\ trResult' = TraceFailed
                  /\ UNCHANGED <<trTodo, trIndirect>>
             ELSE /\ trReads' = [trReads EXCEPT !["move"] = @ + 1,
                                                !["all_lines"] = @ + 1]
                  /\ trIndirect' =
                        IF ToLinesInMove(m) /\ related_from_moves # {}
                        THEN Append(trIndirect,
                                    [to_move |-> m,
                                     related_from_moves |-> related_from_moves])
                        ELSE trIndirect
                  /\ trTodo' = trTodo \ {m}
                  /\ UNCHANGED <<trPc, trResult>>
    /\ UNCHANGED <<trLimit, trLedger, trFrom, trTo, trMoveIds, trPartnerIds, trDirect>>
    /\ UNCHANGED <<sessionVars, reconcileVars, queryVars, contextVars, expiryVars>>

\* result = {...}; return result
TraceReturn ==
    /\ trPc = "return" \/ (trPc = "indirect" /\ trTodo = {})
    /\ trPc' = "done"
    /\ trResult' = TraceReturned
    /\ UNCHANGED <<trLimit, trLedger, trFrom, trTo, trMoveIds, trPartnerIds, trTodo,
                   trDirect, trIndirect, trReads>>
    /\ UNCHANGED <<sessionVars, reconcileVars, queryVars, contextVars, expiryVars>>

NextTrace ==
    \/ TraceResolve
    \/ TraceReadFromLines
    \/ TraceDirect
    \/ TraceAfterDirect
    \/ TraceReadToLines
    \/ TraceIndirect
    \/ TraceReturn

SpecTrace == InitTrace /\ [][NextTrace]_vars

\* the tool returned its result dictionary
TraceDone == trPc = "done" /\ trResult.kind = "ok"
\* the tool returned the error of an exception
TraceRaised == trPc = "done" /\ trResult.kind = "error"
\* the entries named in a list of relations
DirectSet == {trResult.direct[k].move : k \in 1..Len(trResult.direct)}
IndirectSet == {trResult.indirect[k].to_move : k \in 1..Len(trResult.indirect)}

\* C16: when from_account or to_account resolves to no account, trace returns
\* the not-found error and has issued no call on account.move.line.
C16_UnresolvedFailsBeforeLineReads ==
    (trPc # "resolve" /\ ~TraceRaised /\ (trFrom = {} \/ trTo = {}))
        => /\ trPc = "done"
           /\ trResult.kind = "not_found"
           /\ \A k \in LineReadKinds : trReads[k] = 0

\* to_account resolved to nothing while from_account resolved and the ledger
\* has lines
C16_Witness ==
    /\ trPc = "done" /\ trResult.kind = "not_found"
    /\ trFrom # {} /\ trTo = {}
    /\ \E m \in DOMAIN trLedger : trLedger[m].fline.present /\ trLedger[m].fline.read

\* C17: an entry with a line on F that was read and a line on T is in
\* direct_relations, and no entry is in both lists of one result.
C17_DirectAndDisjoint ==
    TraceDone
        => /\ \A m \in DOMAIN trLedger :
                (/\ trLedger[m].fline.present /\ trLedger[m].fline.read
                 /\ trLedger[m].tline.present)
                    => m \in DirectSet
           /\ DirectSet \cap IndirectSet = {}

\* one result holds a direct and an indirect relation
C17_Witness ==
    /\ TraceDone
    /\ DirectSet # {}
    /\ IndirectSet # {}

\* C18: with no entry on both F and T, an entry E3 with a line on T whose
\* partner P is that of a line on F of another entry E2 is in
\* indirect_relations with E2 among its related_from_moves, within the limit
\* and whatever the partner of E3's header.
C18_IndirectBySharedPartner ==
    TraceDone
        => \A e2, e3 \in DOMAIN trLedger :
             (/\ e2 # e3
              /\ \A m \in DOMAIN trLedger :
                    ~(trLedger[m].fline.present /\ trLedger[m].tline.present)
              /\ trLedger[e2].fline.present /\ trLedger[e2].fline.read
              /\ trLedger[e2].fline.partner # NoPartner
              /\ trLedger[e3].tline.present
              /\ trLedger[e3].tline.partner = trLedger[e2].fline.partner
              /\ trLimit >= Cardinality(DOMAIN trLedger))
                 => \E k \in 1..Len(trResult.indirect) :
                       /\ trResult.indirect[k].to_move = e3
                       /\ e2 \in trResult.indirect[k].related_from_moves

\* C19: a call for the lines on T by partner is issued, and
\* indirect_relations is non-empty, only when the direct count is below limit
\* and partner_ids is not empty.
C19_IndirectOnlyBelowLimit ==
    (trReads # <<>> /\ (trReads["to_lines"] > 0 \/ trIndirect # <<>>
                            \/ trPc \in {"to_lines", "indirect"}))
        => (Len(trDirect) < trLimit /\ trPartnerIds # {})

\* the direct count met a positive limit while a line on T of another entry
\* carried a partner of P: no indirect search was made
C19_Witness ==
    /\ TraceDone
    /\ trLimit >= 1 /\ Len(trResult.direct) >= trLimit
    /\ trResult.indirect = <<>> /\ trReads["to_lines"] = 0
    /\ \E m \in DOMAIN trLedger :
         /\ m \notin DirectSet
         /\ trLedger[m].tline.present
         /\ trLedger[m].tline.partner \in trPartnerIds
         /\ trLedger[m].header = trLedger[m].tline.partner

\* ============================================================================
\* the domains of the list queries (src/resources/accounting.py)
\* Argument values are written as Python prints them: "0", "7", "True", "False".

\* Python truthiness of an argument: None, 0, "" and False are falsy
PyTruthy(v) == v \notin {Unset, "0", "", "False"}

\* what a caller passes for an id, a flag, a date and a text
IdArgs == {Unset, "0", "7"}
OtherIdArgs == {Unset, "7"}
FlagArgs == {Unset, "True", "False"}
DateArgs == {Unset, "2024-01-31"}
TextArgs == {Unset, "abc"}

\* pending: Optional[bool] = False
PendingDefault(v) == IF v = Unset THEN "False" ELSE v

\* if v: domain.append((field, operator, v))
When(v, field, operator) == IF PyTruthy(v) THEN <<<<field, operator, v>>>> ELSE <<>>

\* if pending: domain.append(("payment_state", "!=", "paid"))
WhenPending(v) ==
    IF PyTruthy(PendingDefault(v)) THEN <<<<"payment_state", "!=", "paid">>>> ELSE <<>>

\* the active predicate, were the flag tested for truth
ActiveIfTruthy(v) ==
    IF PyTruthy(v) THEN <<<<"active", "=", v>>>> ELSE <<<<"active", "=", "True">>>>

\* if active is not None: (active = active) else: (active = True)
ActiveOrDefault(v) ==
    IF v # Unset THEN <<<<"active", "=", v>>>> ELSE <<<<"active", "=", "True">>>>

\* the domain of list_vendor_bills and list_customer_invoices
InvoicesDomain(move_type, a) ==
    <<<<"move_type", "=", move_type>>>>
        \o When(a.partner_id, "partner_id", "=")
        \o WhenPending(a.pending)
        \o When(a.date_from, "invoice_date", ">=")
        \o When(a.date_to, "invoice_date", "<=")

\* the domain of list_payments: invoice_id adds nothing
PaymentsDomain(a) ==
    When(a.partner_id, "partner_id", "=")
        \o When(a.date_from, "date", ">=")
        \o When(a.date_to, "date", "<=")

\* the domain of list_sales_orders
SalesOrdersDomain(a) ==
    When(a.partner_id, "partner_id", "=")
        \o When(a.state, "state", "=")
        \o When(a.date_from, "date_order", ">=")
        \o When(a.date_to, "date_order", "<=")

\* the domain of list_subscriptions
SubscriptionsDomain(a) ==
    When(a.partner_id, "partner_id", "=")
        \o When(a.state, "state", "=")
        \o When(a.template_id, "template_id", "=")
        \o When(a.date_from, "date_start", ">=")
        \o When(a.date_to, "date_start", "<=")

\* the domain of list_projects
ProjectsDomain(a) ==
    When(a.partner_id, "partner_id", "=")
        \o When(a.user_id, "user_id", "=")
        \o When(a.name, "name", "ilike")
        \o ActiveOrDefault(a.active)

\* the domain of list_project_tasks, were the partner tested before the assignee
TasksDomainPartnerFirst(a) ==
    When(a.project_id, "project_id", "=")
        \o When(a.stage_id, "stage_id", "=")
        \o When(a.partner_id, "partner_id", "=")
        \o When(a.user_id, "user_ids", "in")
        \o When(a.date_deadline_from, "date_deadline", ">=")
        \o When(a.date_deadline_to, "date_deadline", "<=")
        \o ActiveOrDefault(a.active)

\* the domain of list_project_tasks; the assignee is matched as
\* ("user_ids", "in", [user_id])
TasksDomain(a) ==
    When(a.project_id, "project_id", "=")
        \o When(a.stage_id, "stage_id", "=")
        \o When(a.user_id, "user_ids", "in")
        \o When(a.partner_id, "partner_id", "=")
        \o When(a.date_deadline_from, "date_deadline", ">=")
        \o When(a.date_deadline_to, "date_deadline", "<=")
        \o ActiveOrDefault(a.active)

Queries == {"list_vendor_bills", "list_customer_invoices", "list_payments",
            "list_sales_orders", "list_subscriptions", "list_projects",
            "list_project_tasks"}

\* the arguments a query accepts, by parameter name
ArgsOf(q) ==
    CASE q \in {"list_vendor_bills", "list_customer_invoices"} ->
            [partner_id : IdArgs, pending : FlagArgs, date_from : DateArgs,
             date_to : DateArgs]
      [] q = "list_payments" ->
            [partner_id : IdArgs, date_from : DateArgs, date_to : DateArgs,
             invoice_id : OtherIdArgs]
      [] q = "list_sales_orders" ->
            [partner_id : IdArgs, state : TextArgs, date_from : DateArgs,
             date_to : DateArgs]
      [] q = "list_subscriptions" ->
            [partner_id : IdArgs, state : TextArgs, template_id : OtherIdArgs,
             date_from : DateArgs, date_to : DateArgs]
      [] q = "list_projects" ->
            [partner_id : IdArgs, user_id : OtherIdArgs, name : TextArgs,
             active : FlagArgs]
      [] q = "list_project_tasks" ->
            [project_id : OtherIdArgs, stage_id : OtherIdArgs, user_id : OtherIdArgs,
             partner_id : IdArgs, date_deadline_from : DateArgs,
             date_deadline_to : DateArgs, active : FlagArgs]

InitQuery ==
    /\ SessionInit
    /\ ReconcileOff
    /\ TraceOff
    /\ ContextOff
    /\ ExpiryOff
    /\ qPc = "call"
    /\ qQuery \in Queries
    /\ qArgs \in ArgsOf(qQuery)
    /\ qDomain = <<>>

\* a query builds its domain
Build(q, domain) ==
    /\ qPc = "call"
    /\ qQuery = q
    /\ qDomain' = domain
    /\ qPc' = "built"
    /\ UNCHANGED <<qQuery, qArgs>>
    /\ UNCHANGED <<sessionVars, reconcileVars, traceVars, contextVars, expiryVars>>

list_vendor_bills == Build("list_vendor_bills", InvoicesDomain("in_invoice", qArgs))
list_customer_invoices ==
    Build("list_customer_invoices", InvoicesDomain("out_invoice", qArgs))
list_payments == Build("list_payments", PaymentsDomain(qArgs))
list_sales_orders == Build("list_sales_orders", SalesOrdersDomain(qArgs))
list_subscriptions == Build("list_subscriptions", SubscriptionsDomain(qArgs))
list_projects == Build("list_projects", ProjectsDomain(qArgs))
list_project_tasks == Build("list_project_tasks", TasksDomain(qArgs))

\* odoo_client = await get_odoo_client_from_context(ctx), before the try: an
\* exception of it leaves the tool function
QueryGetClient ==
    /\ qPc = "built"
    /\ \E ok \in BOOLEAN : qPc' = IF ok THEN "read" ELSE "raised"
    /\ UNCHANGED <<qQuery, qArgs, qDomain>>
    /\ UNCHANGED <<sessionVars, reconcileVars, traceVars, contextVars, expiryVars>>

\* try: execute_kw(..., "search_read", [domain], ...); return [format(...)]
\* except Exception as e: return {"error": str(e)}
QueryRead ==
    /\ qPc = "read"
    /\ \E ok \in BOOLEAN : qPc' = IF ok THEN "returned" ELSE "error"
    /\ UNCHANGED <<qQuery, qArgs, qDomain>>
    /\ UNCHANGED <<sessionVars, reconcileVars, traceVars, contextVars, expiryVars>>

NextQuery ==
    \/ list_vendor_bills
    \/ list_customer_invoices
    \/ list_payments
    \/ list_sales_orders
    \/ list_subscriptions
    \/ list_projects
    \/ list_project_tasks
    \/ QueryGetClient
    \/ QueryRead

SpecQuery == InitQuery /\ [][NextQuery]_vars

\* a place of a query's fixed order: the parameter that fills it ("" for the
\* predicate every call adds), and the field and operator of its predicate
Slot(param, field, operator) == [param |-> param, field |-> field, operator |-> operator]

\* the fixed order of each query, read off its parameter list
Slots(q) ==
    CASE q \in {"list_vendor_bills", "list_customer_invoices"} ->
            <<Slot("", "move_type", "="), Slot("partner_id", "partner_id", "="),
              Slot("pending", "payment_state", "!="),
              Slot("date_from", "invoice_date", ">="),
              Slot("date_to", "invoice_date", "<=")>>
      [] q = "list_payments" ->
            <<Slot("partner_id", "partner_id", "="), Slot("date_from", "date", ">="),
              Slot("date_to", "date", "<=")>>
      [] q = "list_sales_orders" ->
            <<Slot("partner_id", "partner_id", "="), Slot("state", "state", "="),
              Slot("date_from", "date_order", ">="),
              Slot("date_to", "date_order", "<=")>>
      [] q = "list_subscriptions" ->
            <<Slot("partner_id", "partner_id", "="), Slot("state", "state", "="),
              Slot("template_id", "template_id", "="),
              Slot("date_from", "date_start", ">="),
              Slot("date_to", "date_start", "<=")>>
      [] q = "list_projects" ->
            <<Slot("partner_id", "partner_id", "="), Slot("user_id", "user_id", "="),
              Slot("name", "name", "ilike"), Slot("active", "active", "=")>>
      [] q = "list_project_tasks" ->
            <<Slot("project_id", "project_id", "="), Slot("stage_id", "stage_id", "="),
              Slot("user_id", "user_ids", "in"), Slot("partner_id", "partner_id", "="),
              Slot("date_deadline_from", "date_deadline", ">="),
              Slot("date_deadline_to", "date_deadline", "<="),
              Slot("active", "active", "=")>>

\* s is t with some elements left out
RECURSIVE IsSubsequence(_, _)
IsSubsequence(s, t) ==
    IF s = <<>> THEN TRUE
    ELSE IF t = <<>> THEN FALSE
    ELSE IF Head(s) = Head(t) THEN IsSubsequence(Tail(s), Tail(t))
    ELSE IsSubsequence(s, Tail(t))

\* field and operator of the predicates of a domain, and of the places of an order
KeysOf(domain) == [i \in 1..Len(domain) |-> <<domain[i][1], domain[i][2]>>]
SlotKeys(q) == [i \in 1..Len(Slots(q)) |-> <<Slots(q)[i].field, Slots(q)[i].operator>>]
\* the predicates of the built domain
Predicates == {qDomain[i] : i \in 1..Len(qDomain)}

\* the built domain is a subsequence of the query's fixed order
InFixedOrder == IsSubsequence(KeysOf(qDomain), SlotKeys(qQuery))

\* an omitted parameter, other than those exempt, left no predicate in its place
OmittedAddNothing(exempt) ==
    \A i \in 1..Len(Slots(qQuery)) :
        LET sl == Slots(qQuery)[i]
        IN  (sl.param # "" /\ sl.param \notin exempt /\ qArgs[sl.param] = Unset)
                => \A pr \in Predicates : <<pr[1], pr[2]>> # <<sl.field, sl.operator>>

\* pending=true adds (payment_state != paid); pending=false or omitted adds nothing
PendingRule ==
    "pending" \in DOMAIN qArgs
        => ((qArgs.pending = "True") <=> (<<"payment_state", "!=", "paid">> \in Predicates))

\* a supplied date bound adds its inclusive predicate
DateRule ==
    \A i \in 1..Len(Slots(qQuery)) :
        LET sl == Slots(qQuery)[i]
        IN  (sl.operator \in {">=", "<="} /\ qArgs[sl.param] # Unset)
                => <<sl.field, sl.operator, qArgs[sl.param]>> \in Predicates

\* C20: the domain of every list query is a subsequence of the fixed order of
\* its parameter list; an omitted parameter contributes no predicate, pending
\* adds (payment_state != paid) exactly when true, a supplied date bound adds
\* its inclusive predicate.
C20_DomainInParameterOrder ==
    qPc = "built"
        => /\ InFixedOrder
           /\ OmittedAddNothing({})
           /\ PendingRule
           /\ DateRule

\* C20, amended: as above, except that the omitted active flag of
\* list_projects and list_project_tasks contributes (active = True), in the
\* flag's place.
C20_DomainInParameterOrderButActive ==
    qPc = "built"
        => /\ InFixedOrder
           /\ OmittedAddNothing({"active"})
           /\ ("active" \in DOMAIN qArgs /\ qArgs.active = Unset)
                  => qDomain[Len(qDomain)] = <<"active", "=", "True">>
           /\ PendingRule
           /\ DateRule

\* list_project_tasks was called with an assignee, a partner and a deadline
\* bound and without the other parameters
C20_Witness ==
    /\ qPc = "built" /\ qQuery = "list_project_tasks"
    /\ qArgs.user_id # Unset /\ qArgs.partner_id = "7"
    /\ qArgs.date_deadline_to # Unset
    /\ qArgs.project_id = Unset /\ qArgs.stage_id = Unset
    /\ qArgs.date_deadline_from = Unset /\ qArgs.active = Unset
    /\ Len(qDomain) = 4

\* C21: every partner id the caller supplies adds (partner_id = id) to the
\* domain; the predicate is absent only when the parameter is omitted.
C21_SuppliedPartnerAddsPredicate ==
    qPc = "built"
        => /\ qArgs.partner_id # Unset
                => <<"partner_id", "=", qArgs.partner_id>> \in Predicates
           /\ (\A pr \in Predicates : pr[1] # "partner_id")
                => qArgs.partner_id = Unset

\* the active predicates of the built domain
ActivePredicates == {i \in 1..Len(qDomain) : qDomain[i][1] = "active"}

\* C22: the domains of list_projects and list_project_tasks hold exactly one
\* active predicate, (active = True) when the flag is omitted and (active = v)
\* when it is supplied as v; no other query adds a predicate for an omitted
\* parameter.
C22_ExactlyOneActivePredicate ==
    qPc = "built"
        => IF qQuery \in {"list_projects", "list_project_tasks"}
           THEN /\ Cardinality(ActivePredicates) = 1
                /\ \A i \in ActivePredicates :
                      qDomain[i] = <<"active", "=",
                                     IF qArgs.active = Unset THEN "True"
                                     ELSE qArgs.active>>
                /\ OmittedAddNothing({"active"})
           ELSE /\ ActivePredicates = {}
                /\ OmittedAddNothing({})

\* list_projects was called with active=False and nothing else
C22_Witness ==
    /\ qPc = "built" /\ qQuery = "list_projects"
    /\ qArgs.active = "False"
    /\ <<"active", "=", "False">> \in Predicates
    /\ qArgs.partner_id = Unset /\ qArgs.user_id = Unset /\ qArgs.name = Unset

\* C23: every failure of a list query, a failure to obtain the client
\* included, is returned as an error value; no exception leaves the tool
\* function.
C23_NoExceptionLeavesTool == qPc # "raised"

\* ============================================================================
\* get_odoo_client_from_context (src/context_handler.py) and the client of the
\* lifespan (src/mcp_instance.py).  The shared client is uid/connected; connect()
\* never yields the event loop, so an invocation of the handler is not
\* interleaved with another one.

\* the session variables the handler leaves alone
callerVars == <<expired, running, opsLeft, pc, localVars, ghostVars>>

\* lifespan_context: the AppContext, a dictionary holding the client as a
\* dictionary, another dictionary, or none (the access raises)
CtxShapes == {"AppContext", "dict_client", "dict_plain", "missing"}

\* OdooClient(...): uid = None, _connected = False
NewClient == [uid |-> None, connected |-> FALSE]

\* what the backend answers to a connect(): an identity, a rejection, a
\* transport fault of authenticate, or an identity and then a fault of version()
ConnectAnswers == {"identity", "rejected", "fault", "version_fault"}

\* connect() on a client in state c, as one step: the client afterwards and
\* whether connect() raised
ConnectOnce(c, answer, fresh) ==
    CASE answer = "identity" -> [uid |-> fresh, connected |-> TRUE, raised |-> FALSE]
      [] answer = "rejected" ->
            [uid |-> Rejected, connected |-> FlagOnFailure, raised |-> TRUE]
      [] answer = "fault" -> [uid |-> c.uid, connected |-> FlagOnFailure, raised |-> TRUE]
      [] answer = "version_fault" ->
            [uid |-> fresh, connected |-> FlagOnFailure, raised |-> TRUE]

\* the backend can give the answer, and the identities it has issued afterwards
CanAnswer(answer) == answer \in {"identity", "version_fault"} => nextId <= MaxId
Issue(answer) == IF answer \in {"identity", "version_fault"} THEN nextId + 1 ELSE nextId

\* OdooClient.is_connected of a client in state c
IsConnected(c) == c.uid # None /\ c.connected

\* the test before the return, were it left out
NeedsConnectNever(c) == FALSE

\* if not client.is_connected: await client.connect()
NeedsConnect(c) == ~IsConnected(c)

InitContext ==
    /\ SessionInit
    /\ ReconcileOff
    /\ TraceOff
    /\ QueryOff
    /\ ExpiryOff
    /\ cxPc = "startup"
    /\ cxCtx = "none"
    /\ cxHeld = "none"
    /\ cxNew = NewClient
    /\ cxCreated = 0
    /\ cxSessions = 0
    /\ cxTried = <<>>
    /\ cxCalls = 0

\* app_lifespan: the shared client is created and connected, and the first
\* invocation arrives
Startup ==
    /\ cxPc = "startup"
    /\ uid' = nextId
    /\ connected' = TRUE
    /\ nextId' = nextId + 1
    /\ cxPc' = "enter"
    /\ cxCtx' \in CtxShapes
    /\ cxCalls' = 1
    /\ UNCHANGED <<cxHeld, cxNew, cxCreated, cxSessions, cxTried>>
    /\ UNCHANGED <<callerVars, reconcileVars, traceVars, queryVars, expiryVars>>

\* between invocations the shared client loses its session: a failed
\* connect() or a disconnect() leaves the flag false
SessionLost ==
    /\ cxPc = "enter"
    /\ connected
    /\ connected' = FALSE
    /\ uid' \in {uid, Rejected, None}
    /\ UNCHANGED <<nextId, contextVars>>
    /\ UNCHANGED <<callerVars, reconcileVars, traceVars, queryVars, expiryVars>>

\* the branches on lifespan_context, up to the test before the return
ContextEnter ==
    /\ cxPc = "enter"
    /\ CASE cxCtx = "missing" ->
              /\ cxPc' = "fallback"
              /\ UNCHANGED <<cxHeld, cxNew, cxCreated, cxSessions, cxTried, uid,
                             connected, nextId>>
         [] cxCtx = "AppContext" ->
              /\ cxHeld' = "shared"
              /\ cxPc' = "check"
              /\ UNCHANGED <<cxNew, cxCreated, cxSessions, cxTried, uid, connected,
                             nextId>>
         [] cxCtx \in {"dict_client", "dict_plain"} ->
              \E answer \in ConnectAnswers :
                 LET c == ConnectOnce(NewClient, answer, nextId)
                 IN  /\ CanAnswer(answer)
                     /\ cxHeld' = "new"
                     /\ cxCreated' = cxCreated + 1
                     /\ cxNew' = [uid |-> c.uid, connected |-> c.connected]
                     /\ cxSessions' = cxSessions + (IF c.uid \in Ids THEN 1 ELSE 0)
                     /\ cxTried' = Append(cxTried, answer)
                     /\ nextId' = Issue(answer)
                     /\ cxPc' = IF c.raised THEN "fallback" ELSE "check"
                     /\ UNCHANGED <<uid, connected>>
    /\ UNCHANGED <<cxCtx, cxCalls>>
    /\ UNCHANGED <<callerVars, reconcileVars, traceVars, queryVars, expiryVars>>

\* if not client.is_connected: await client.connect(); return client
ContextCheck ==
    /\ cxPc = "check"
    /\ LET held == IF cxHeld = "shared" THEN [uid |-> uid, connected |-> connected]
                   ELSE cxNew
       IN  IF NeedsConnect(held)
           THEN \E answer \in ConnectAnswers :
                  LET c == ConnectOnce(held, answer, nextId)
                      after == [uid |-> c.uid, connected |-> c.connected]
                  IN  /\ CanAnswer(answer)
                      /\ IF cxHeld = "shared"
                         THEN /\ uid' = after.uid
                              /\ connected' = after.connected
                              /\ UNCHANGED <<cxNew, cxSessions>>
                         ELSE /\ cxNew' = after
                              /\ cxSessions' = cxSessions
                                                 + (IF answer \in {"identity",
                                                                   "version_fault"}
                                                    THEN 1 ELSE 0)
                              /\ UNCHANGED <<uid, connected>>
                      /\ cxTried' = Append(cxTried, answer)
                      /\ nextId' = Issue(answer)
                      /\ cxPc' = IF c.raised THEN "fallback" ELSE "returned"
           ELSE /\ cxPc' = "returned"
                /\ UNCHANGED <<uid, connected, nextId, cxNew, cxSessions, cxTried>>
    /\ UNCHANGED <<cxCtx, cxHeld, cxCreated, cxCalls>>
    /\ UNCHANGED <<callerVars, reconcileVars, traceVars, queryVars, expiryVars>>

\* except Exception: a new client from the configuration, connect(), return
ContextFallback ==
    /\ cxPc = "fallback"
    /\ \E answer \in ConnectAnswers :
         LET c == ConnectOnce(NewClient, answer, nextId)
         IN  /\ CanAnswer(answer)
             /\ cxHeld' = "new"
             /\ cxCreated' = cxCreated + 1
             /\ cxNew' = [uid |-> c.uid, connected |-> c.connected]
             /\ cxSessions' = cxSessions + (IF c.uid \in Ids THEN 1 ELSE 0)
             /\ cxTried' = Append(cxTried, answer)
             /\ nextId' = Issue(answer)
             /\ cxPc' = IF c.raised THEN "raised" ELSE "returned"
    /\ UNCHANGED <<uid, connected, cxCtx, cxCalls>>
    /\ UNCHANGED <<callerVars, reconcileVars, traceVars, queryVars, expiryVars>>

\* the next tool invocation obtains its client
ContextNext ==
    /\ cxPc \in {"returned", "raised"}
    /\ cxCalls < MaxOps
    /\ cxCalls' = cxCalls + 1
    /\ cxPc' = "enter"
    /\ cxCtx' \in CtxShapes
    /\ cxHeld' = "none"
    /\ cxNew' = NewClient
    /\ cxTried' = <<>>
    /\ UNCHANGED <<uid, connected, nextId, cxCreated, cxSessions>>
    /\ UNCHANGED <<callerVars, reconcileVars, traceVars, queryVars, expiryVars>>

NextContext ==
    \/ Startup
    \/ SessionLost
    \/ ContextEnter
    \/ ContextCheck
    \/ ContextFallback
    \/ ContextNext

SpecContext == InitContext /\ [][NextContext]_vars

\* the client an invocation returned
Returned == IF cxHeld = "shared" THEN [uid |-> uid, connected |-> connected] ELSE cxNew

C29_ReturnsConnectedOrRaises ==
    /\ cxPc = "returned"
          => /\ Returned.connected
             /\ Returned.uid \in 1..MaxId + 1
             /\ Returned.uid # None /\ Returned.uid # Rejected
    /\ cxPc = "raised"
          => /\ cxTried # <<>>
             /\ cxTried[Len(cxTried)] # "identity"

\* the shared client had lost its session, its reconnect failed, and the
\* fallback returned a connected client
C29_Witness ==
    /\ cxPc = "returned"
    /\ cxCtx = "AppContext"
    /\ ~connected
    /\ Len(cxTried) = 2
    /\ cxTried[2] = "identity"
    /\ cxNew.connected

\* C25: every direct record carries its entry with all lines of the entry, not
\* only those on T; the entry is one of move_ids and has a line on T.
C25_DirectCarriesFullLineSet ==
    TraceDone
        => \A k \in 1..Len(trResult.direct) :
             LET r == trResult.direct[k]
                 e == trLedger[r.move]
             IN  /\ e.fline.present /\ e.fline.read
                 /\ r.move \in trMoveIds
                 /\ e.tline.present
                 /\ r.lines = {"F", "T"}

\* a returned trace with two direct records
C25_Witness ==
    /\ TraceDone
    /\ Len(trResult.direct) = 2
    /\ trResult.direct[1].move # trResult.direct[2].move

\* C27: every indirect record is for an entry outside move_ids with a line on
\* T and a non-empty list of related source entries, all in move_ids; the
\* number of indirect records does not exceed limit - |direct_relations|.
C27_IndirectRecordsWellFormed ==
    TraceDone
        => /\ \A k \in 1..Len(trResult.indirect) :
                LET r == trResult.indirect[k]
                IN  /\ r.to_move \notin trMoveIds
                    /\ trLedger[r.to_move].tline.present
                    /\ r.related_from_moves # {}
                    /\ r.related_from_moves \subseteq trMoveIds
           /\ Len(trResult.indirect) <= trLimit - Len(trResult.direct)

\* C28: the direct and the indirect relations of a result are at most limit
\* together.
C28_AtMostLimitFlows ==
    TraceDone => Len(trResult.direct) + Len(trResult.indirect) <= trLimit

\* ------------------------------------------------ the expiry test on text

\* the letters str.lower() maps, and what it maps them to
Uppers == <<"A","B","C","D","E","F","G","H","I","J","K","L","M",
            "N","O","P","Q","R","S","T","U","V","W","X","Y","Z">>
Lowers == <<"a","b","c","d","e","f","g","h","i","j","k","l","m",
            "n","o","p","q","r","s","t","u","v","w","x","y","z">>

\* str.lower() on one character
Lower(c) ==
    IF \E i \in 1..Len(Uppers) : Uppers[i] = c
    THEN Lowers[CHOOSE i \in 1..Len(Uppers) : Uppers[i] = c]
    ELSE c

\* the comparison were the text left in the case it arrived in
LowerStrKeepCase(s) == s

\* str.lower()
LowerStr(s) == [i \in 1..Len(s) |-> Lower(s[i])]

\* needle in hay
Contains(hay, needle) ==
    \E k \in 0..(Len(hay) - Len(needle)) :
        SubSeq(hay, k + 1, k + Len(needle)) = needle

\* the two phrases of the handler
SessionExpired == <<"s","e","s","s","i","o","n"," ","e","x","p","i","r","e","d">>
NotLogged == <<"n","o","t"," ","l","o","g","g","e","d">>

\* the quote repr() puts around a str: the double quote when the text holds a
\* single quote and no double quote, the single quote otherwise
QuoteOf(s) ==
    IF (\E i \in 1..Len(s) : s[i] = "'") /\ ~(\E i \in 1..Len(s) : s[i] = "\"")
    THEN "\"" ELSE "'"

\* repr() of one character of a str quoted with q: the quote, the backslash
\* and the line feed are written as escapes, letters, digits and the space as
\* themselves
Escape(c, q) ==
    CASE c = "\n" -> <<"\\", "n">>
      [] c = "\\" -> <<"\\", "\\">>
      [] c = q -> <<"\\", c>>
      [] OTHER -> <<c>>

RECURSIVE Escaped(_, _)
Escaped(s, q) == IF s = <<>> THEN <<>> ELSE Escape(Head(s), q) \o Escaped(Tail(s), q)

\* repr() of a str
Repr(s) == <<QuoteOf(s)>> \o Escaped(s, QuoteOf(s)) \o <<QuoteOf(s)>>

\* str(e): a Fault prints as <Fault code: repr(faultString)>, any other
\* exception as its message
Str(e) ==
    IF e.kind = "Fault"
    THEN <<"<","F","a","u","l","t"," ","1",":"," ">> \o Repr(e.text) \o <<">">>
    ELSE e.text

\* "session expired" in str(e).lower() or "not logged" in str(e).lower()
IsExpiry(e) ==
    \/ Contains(LowerStr(Str(e)), SessionExpired)
    \/ Contains(LowerStr(Str(e)), NotLogged)

\* the upper-case form of a letter
Upper(c) ==
    IF \E i \in 1..Len(Lowers) : Lowers[i] = c
    THEN Uppers[CHOOSE i \in 1..Len(Lowers) : Lowers[i] = c]
    ELSE c

\* phrase p with the letters at the positions of U in upper case
Cased(p, U) == [i \in 1..Len(p) |-> IF i \in U THEN Upper(p[i]) ELSE p[i]]

\* phrase p without its k-th character, and with a line feed for its space
Drop(p, k) == SubSeq(p, 1, k - 1) \o SubSeq(p, k + 1, Len(p))
Broken(p) == [i \in 1..Len(p) |-> IF p[i] = " " THEN "\n" ELSE p[i]]

\* the letter cases a phrase is sent in: lower, upper, capitalised, every
\* other letter, and one upper-case letter anywhere
CasePatterns(p) ==
    {{}, 1..Len(p), {1}, {i \in 1..Len(p) : i % 2 = 0}} \cup {{k} : k \in 1..Len(p)}

\* fault texts that carry phrase p, and texts that nearly do
Carrying(p) == {Cased(p, U) : U \in CasePatterns(p)}
NearMisses(p) ==
    {Drop(p, k) : k \in 1..Len(p)} \cup {Drop(Cased(p, 1..Len(p)), k) : k \in 1..Len(p)}
        \cup {Broken(p), Broken(Cased(p, 1..Len(p)))}

AccessDenied == <<"A","c","c","e","s","s"," ","d","e","n","i","e","d">>
Before == {<<>>, <<"O","d","o","o",":"," ">>, <<"n","o","t","'">>}
After == {<<>>, <<" ","(","n","o","t",")">>}

\* the exceptions the remote call raises
Exceptions ==
    {[kind |-> k, text |-> b \o t \o a] :
        k \in {"Fault", "OSError"}, b \in Before, a \in After,
        t \in Carrying(SessionExpired) \cup NearMisses(SessionExpired)
                \cup Carrying(NotLogged) \cup NearMisses(NotLogged)
                \cup {AccessDenied, <<>>}}

\* the phrase a text was built around
PhraseOf(t) ==
    IF \E b \in Before, a \in After, c \in Carrying(SessionExpired) : t = b \o c \o a
    THEN "session expired"
    ELSE IF \E b \in Before, a \in After, c \in Carrying(NotLogged) : t = b \o c \o a
    THEN "not logged"
    ELSE "none"

InitExpiry ==
    /\ SessionInit
    /\ ReconcileOff
    /\ TraceOff
    /\ QueryOff
    /\ ContextOff
    /\ xPc = "call"
    /\ xMsg = [kind |-> "none", text |-> <<>>]
    /\ xPhrase = "none"
    /\ xPath = "none"

\* models.execute_kw(...) of the try block: a value comes back, or the call
\* raises
ExpiryCall ==
    /\ xPc = "call"
    /\ \/ /\ xPc' = "returned"
          /\ xPath' = "direct"
          /\ UNCHANGED <<xMsg, xPhrase>>
       \/ \E e \in Exceptions :
             /\ xMsg' = e
             /\ xPhrase' = PhraseOf(e.text)
             /\ xPc' = "caught"
             /\ UNCHANGED xPath
    /\ UNCHANGED <<sessionVars, reconcileVars, traceVars, queryVars, contextVars>>

\* except Exception as e: the test on the text of e
ExpiryTest ==
    /\ xPc = "caught"
    /\ IF IsExpiry(xMsg)
       THEN xPc' = "reconnect" /\ xPath' = "reauth"
       ELSE xPc' = "raised" /\ xPath' = "raise"
    /\ UNCHANGED <<xMsg, xPhrase>>
    /\ UNCHANGED <<sessionVars, reconcileVars, traceVars, queryVars, contextVars>>

\* await self.connect() of the handler: it returns or raises
ExpiryReconnect ==
    /\ xPc = "reconnect"
    /\ xPc' \in {"retry", "raised"}
    /\ UNCHANGED <<xMsg, xPhrase, xPath>>
    /\ UNCHANGED <<sessionVars, reconcileVars, traceVars, queryVars, contextVars>>

\* the second models.execute_kw(...): its value is returned, its exception
\* leaves execute_kw
ExpiryRetry ==
    /\ xPc = "retry"
    /\ xPc' \in {"returned", "raised"}
    /\ xPath' = "retried"
    /\ UNCHANGED <<xMsg, xPhrase>>
    /\ UNCHANGED <<sessionVars, reconcileVars, traceVars, queryVars, contextVars>>

NextExpiry ==
    \/ ExpiryCall
    \/ ExpiryTest
    \/ ExpiryReconnect
    \/ ExpiryRetry

SpecExpiry == InitExpiry /\ [][NextExpiry]_vars

\* character c is character d in some letter case
SameLetter(c, d) == c = d \/ Upper(c) = d \/ c = Upper(d)

\* text t holds phrase p in some letter case
HoldsPhrase(t, p) ==
    \E k \in 0..(Len(t) - Len(p)) : \A i \in 1..Len(p) : SameLetter(t[k + i], p[i])

\* the handler went on to reconnect
Reconnects == xPc \in {"reconnect", "retry"} \/ xPath \in {"reauth", "retried"}

C30_FailedConnectDisconnects ==
    [][\A t \in Tasks :
          ConnectFail(t)
              => /\ ~is_connected'
                 /\ ret[t] = "ex_call2"
                       => /\ pc'[t] = "idle"
                          /\ nCalls'[t] = 1
                          /\ ans2'[t] = "none"
                          /\ outcome'[t] \notin {"ok", "none"}
                          /\ path'[t] = <<"Connected", "Reauthenticating",
                                          "Disconnected">>]_vars

====
